---- MODULE Spec2Model ----
(***************************************************************************)
(* Model of the RAG document-QA backend: the FastAPI endpoints of          *)
(* backend/main.py and the services they call (DocumentProcessor,          *)
(* VectorStore, RAGChain).  The ChromaDB collection "documents" is the     *)
(* shared persistent state; each VectorStore instance holds its own        *)
(* handle on it.                                                           *)
(***************************************************************************)
EXTENDS Integers, Sequences, FiniteSets, TLC

VARIABLES
    collId,      \* id of the collection named "documents" in the persist dir, 0 = none
    collData,    \* its entries, in insertion order
    vsHandle,    \* collection id held by main.vector_store.vector_store
    ragHandle,   \* collection id held by rag_chain.vector_store.vector_store
    uploadDir,   \* names of the files in UPLOAD_DIR
    inserted,    \* history: entries committed by add_texts since the last delete_collection
    cleared,     \* history: the run of successful clears since the last successful insert
    resp,        \* the last call: its inputs, what it invoked and what it returned
    inflight,    \* the /upload requests suspended at "await file.read()", in arrival order
    session_state, \* st.session_state of the Streamlit page
    tempFiles    \* number of files upload_document left in the temporary directory

vars == <<collId, collData, vsHandle, ragHandle, uploadDir, inserted, cleared, resp,
          inflight, session_state, tempFiles>>

----------------------------------------------------------------------------
(* Bounds of the model *)

\* largest number of entries the collection is let grow to
MaxEntries == 6
\* range of the abstract embedding values
EmbedMod == 4
\* the run of consecutive clears is counted up to this number
MaxClearRun == 2

(* Program constants *)

TOP_K_RESULTS == 5
MAX_UPLOAD_SIZE == 10485760
\* doc.page_content[:200]
DisplayChars == 200

Ellipsis == "..."

----------------------------------------------------------------------------
(* Small helpers on sequences *)

Min(a, b) == IF a < b THEN a ELSE b

Abs(x) == IF x < 0 THEN 0 - x ELSE x

\* Python slice s[:n]
Take(s, n) == SubSeq(s, 1, Min(n, Len(s)))

\* Python s.endswith(suffix)
EndsWith(s, suffix) ==
    /\ Len(s) >= Len(suffix)
    /\ SubSeq(s, Len(s) - Len(suffix) + 1, Len(s)) = suffix

\* Python str.lower() on the characters the model's file names use
LowerChar(c) ==
    CASE c = "P" -> "p"
      [] c = "D" -> "d"
      [] c = "F" -> "f"
      [] c = "A" -> "a"
      [] c = "B" -> "b"
      [] OTHER -> c

\* the i-th character of a string, as a string
CharAt(s, i) == SubSeq(s, i, i)

Lower(s) ==
    LET F[i \in 0..Len(s)] == IF i = 0 THEN "" ELSE F[i - 1] \o LowerChar(CharAt(s, i))
    IN F[Len(s)]

DotPdf == ".pdf"

Alphabet == "abcde"

\* A text of n characters whose content depends on the position
RECURSIVE Text(_, _)
Text(n, s) ==
    IF n = 0 THEN ""
    ELSE IF n = 1 THEN CharAt(Alphabet, ((1 + s) % Len(Alphabet)) + 1)
    ELSE Text(n \div 2, s) \o Text(n - (n \div 2), s + (n \div 2))

----------------------------------------------------------------------------
(* backend/utils/helpers.py *)

\* filename.lower().endswith('.pdf')
validate_pdf(filename) == EndsWith(Lower(filename), DotPdf)

\* characters kept by re.sub(r'[^\w\s\-\.]', '', filename)
KeptChars ==
    {"a", "b", "d", "f", "n", "p", "t", "x", "A", "B", "D", "F", "P",
     "0", "1", "_", " ", "-", "."}

\* os.path.basename: what follows the last "/"
Basename(s) ==
    LET slashes == {i \in 1..Len(s) : CharAt(s, i) = "/"}
        last == IF slashes = {} THEN 0
                ELSE CHOOSE i \in slashes : \A j \in slashes : j <= i
    IN SubSeq(s, last + 1, Len(s))

sanitize_filename(filename) ==
    LET base == Basename(filename)
        F[i \in 0..Len(base)] ==
            IF i = 0 THEN ""
            ELSE IF CharAt(base, i) \in KeptChars THEN F[i - 1] \o CharAt(base, i)
            ELSE F[i - 1]
    IN F[Len(base)]

----------------------------------------------------------------------------
(* backend/services/document_processor.py: the text splitter built by       *)
(* DocumentProcessor.__init__, RecursiveCharacterTextSplitter(chunk_size,   *)
(* chunk_overlap, length_function=len, separators).  It cuts a text at the  *)
(* first separator of the list the text contains, keeps each separator at   *)
(* the head of the split that follows it, merges the splits into chunks of  *)
(* at most chunk_size characters and strips the white space around every    *)
(* chunk it emits.  A split is named by the position (from 1) it starts at. *)

CHUNK_SIZE == 1000
CHUNK_OVERLAP == 200

Separators == <<"\n\n", "\n", " ", "">>

\* the characters str.strip() removes, among those the model's texts use
WhiteSpace == {" ", "\n", "\t"}

Piece(t, p) == [page_content |-> t, page |-> p]

\* re.search(separator, text)
Found(text, sep) ==
    \E i \in 1..(Len(text) - Len(sep) + 1) : SubSeq(text, i, i + Len(sep) - 1) = sep

\* the starts of the occurrences of sep that re.split finds at or after
\* position from: left to right, not overlapping
RECURSIVE Matches(_, _, _)
Matches(text, from, sep) ==
    IF Len(sep) = 1 THEN {i \in from..Len(text) : CharAt(text, i) = sep}
    ELSE LET last == Len(text) - Len(sep) + 1
             At(i) == SubSeq(text, i, i + Len(sep) - 1) = sep
         IN IF \A i \in from..last : ~At(i) THEN {}
            ELSE LET first == CHOOSE i \in from..last :
                                  At(i) /\ \A j \in from..(i - 1) : ~At(j)
                 IN {first} \cup Matches(text, first + Len(sep), sep)

\* _split_text_with_regex(text, separator, keep_separator=True): where the
\* non-empty splits start; with the separator "" every character is a split
SplitStarts(text, separator) ==
    IF separator = "" THEN 1..Len(text)
    ELSE (IF Len(text) > 0 THEN {1} ELSE {}) \cup Matches(text, 1, separator)

\* the start of the split after the one starting at p, n + 1 after the last
NextStart(P, p, n) ==
    CHOOSE q \in (p + 1)..(n + 1) :
        /\ q = n + 1 \/ q \in P
        /\ \A r \in (p + 1)..(q - 1) : r \notin P

\* the start of the split that holds position x
LastStartUpTo(P, x) ==
    CHOOSE q \in P : q <= x /\ \A r \in (q + 1)..x : r \notin P

\* _join_docs on the splits that cover text[a..b]: the text stripped of the
\* white space around it, as a list of one chunk, or no chunk when nothing
\* is left
JoinDocs(text, a, b) ==
    LET solid == {i \in a..b : CharAt(text, i) \notin WhiteSpace}
    IN IF solid = {} THEN <<>>
       ELSE LET first == CHOOSE i \in solid : \A j \in a..(i - 1) : j \notin solid
                last == CHOOSE i \in solid : \A j \in (i + 1)..b : j \notin solid
            IN <<SubSeq(text, first, last)>>

\* Variant of merge_splits: a split is still added when it makes the current
\* chunk one character longer than chunk_size
RECURSIVE merge_splits_oversize(_, _, _, _, _, _)
merge_splits_oversize(text, P, a, hi, chunk_size, chunk_overlap) ==
    IF a > hi THEN <<>>
    ELSE IF hi - a + 1 <= chunk_size + 1 THEN JoinDocs(text, a, hi)
    ELSE LET d == LastStartUpTo(P, a + chunk_size + 1)
             e == NextStart(P, d, hi) - 1
             Kept(q) == /\ q \in P
                        /\ d - q <= chunk_overlap
                        /\ (q = d \/ e + 1 - q <= chunk_size + 1)
             a2 == CHOOSE q \in a..d : Kept(q) /\ \A r \in a..(q - 1) : ~Kept(r)
         IN IF d = a
            THEN JoinDocs(text, a, e)
                     \o merge_splits_oversize(text, P, e + 1, hi, chunk_size, chunk_overlap)
            ELSE JoinDocs(text, a, d - 1)
                     \o merge_splits_oversize(text, P, a2, hi, chunk_size, chunk_overlap)

\* Variant of merge_splits: after a chunk is emitted nothing of it is kept
RECURSIVE merge_splits_no_overlap(_, _, _, _, _, _)
merge_splits_no_overlap(text, P, a, hi, chunk_size, chunk_overlap) ==
    IF a > hi THEN <<>>
    ELSE IF hi - a + 1 <= chunk_size THEN JoinDocs(text, a, hi)
    ELSE LET d == LastStartUpTo(P, a + chunk_size)
             e == NextStart(P, d, hi) - 1
         IN IF d = a
            THEN JoinDocs(text, a, e)
                     \o merge_splits_no_overlap(text, P, e + 1, hi, chunk_size, chunk_overlap)
            ELSE JoinDocs(text, a, d - 1)
                     \o merge_splits_no_overlap(text, P, d, hi, chunk_size, chunk_overlap)

\* Variant of merge_splits: splits are dropped while the kept length is
\* chunk_overlap or more
RECURSIVE merge_splits_short_overlap(_, _, _, _, _, _)
merge_splits_short_overlap(text, P, a, hi, chunk_size, chunk_overlap) ==
    IF a > hi THEN <<>>
    ELSE IF hi - a + 1 <= chunk_size THEN JoinDocs(text, a, hi)
    ELSE LET d == LastStartUpTo(P, a + chunk_size)
             e == NextStart(P, d, hi) - 1
             Kept(q) == /\ q \in P
                        /\ (q = d \/ d - q < chunk_overlap)
                        /\ (q = d \/ e + 1 - q <= chunk_size)
             a2 == CHOOSE q \in a..d : Kept(q) /\ \A r \in a..(q - 1) : ~Kept(r)
         IN IF d = a
            THEN JoinDocs(text, a, e)
                     \o merge_splits_short_overlap(text, P, e + 1, hi, chunk_size,
                                                   chunk_overlap)
            ELSE JoinDocs(text, a, d - 1)
                     \o merge_splits_short_overlap(text, P, a2, hi, chunk_size,
                                                   chunk_overlap)

\* _merge_splits on the splits of P that cover text[a..hi], the separator
\* between them being "" (it is kept in the splits).  The splits are added to
\* the current chunk until the next one, d, would make it longer than
\* chunk_size; the chunk is emitted, and its first splits are dropped while
\* what is kept is longer than chunk_overlap or does not fit with d.
RECURSIVE merge_splits(_, _, _, _, _, _)
merge_splits(text, P, a, hi, chunk_size, chunk_overlap) ==
    IF a > hi THEN <<>>
    ELSE IF hi - a + 1 <= chunk_size THEN JoinDocs(text, a, hi)
    ELSE LET d == LastStartUpTo(P, a + chunk_size)
             e == NextStart(P, d, hi) - 1
             Kept(q) == /\ q \in P
                        /\ d - q <= chunk_overlap
                        /\ (q = d \/ e + 1 - q <= chunk_size)
             a2 == CHOOSE q \in a..d : Kept(q) /\ \A r \in a..(q - 1) : ~Kept(r)
         IN IF d = a
            THEN \* a single split longer than chunk_size is a chunk of its own
                 JoinDocs(text, a, e)
                     \o merge_splits(text, P, e + 1, hi, chunk_size, chunk_overlap)
            ELSE JoinDocs(text, a, d - 1)
                     \o merge_splits(text, P, a2, hi, chunk_size, chunk_overlap)

RECURSIVE split_text_with(_, _, _, _)
RECURSIVE SplitsFrom(_, _, _, _, _, _)

\* the loop of _split_text over the splits from position p on: the splits
\* shorter than chunk_size before the next long split are merged, and the
\* long split is split again with the separators that remain
SplitsFrom(text, P, p, new_separators, chunk_size, chunk_overlap) ==
    LET n == Len(text)
        long == {q \in P : /\ q >= p
                           /\ q + chunk_size - 1 <= n
                           /\ \A r \in (q + 1)..(q + chunk_size - 1) : r \notin P}
    IN IF p > n THEN <<>>
       ELSE IF long = {} THEN merge_splits(text, P, p, n, chunk_size, chunk_overlap)
       ELSE LET b == CHOOSE q \in long : \A r \in long : q <= r
                e == NextStart(P, b, n) - 1
                s == SubSeq(text, b, e)
            IN merge_splits(text, P, p, b - 1, chunk_size, chunk_overlap)
                   \o (IF new_separators = <<>> THEN <<s>>
                       ELSE split_text_with(s, new_separators, chunk_size, chunk_overlap))
                   \o SplitsFrom(text, P, e + 1, new_separators, chunk_size, chunk_overlap)

\* _split_text(text, separators): the separator is "" if it comes first in
\* the list, else the first one the text contains (the last if none)
split_text_with(text, separators, chunk_size, chunk_overlap) ==
    LET known == {k \in 1..Len(separators) :
                     separators[k] = "" \/ Found(text, separators[k])}
        k == IF known = {} THEN Len(separators)
             ELSE CHOOSE i \in known : \A j \in known : i <= j
        separator == separators[k]
        new_separators == IF known = {} \/ separator = "" THEN <<>>
                          ELSE SubSeq(separators, k + 1, Len(separators))
    IN SplitsFrom(text, SplitStarts(text, separator), 1, new_separators,
                  chunk_size, chunk_overlap)

\* TextSplitter.split_text
split_text(text, chunk_size, chunk_overlap) ==
    split_text_with(text, Separators, chunk_size, chunk_overlap)

\* Variant of split_documents: the pages are numbered from 1
split_documents_page_from_one(pages, chunk_size, chunk_overlap) ==
    LET F[i \in 0..Len(pages)] ==
            IF i = 0 THEN <<>>
            ELSE LET texts == split_text(pages[i], chunk_size, chunk_overlap)
                 IN F[i - 1] \o [j \in 1..Len(texts) |-> Piece(texts[j], i)]
    IN F[Len(pages)]

\* TextSplitter.split_documents on the pages PyPDFLoader.load returns, one
\* Document per page with metadata page = 0, 1, ...: every page is split on
\* its own and each chunk carries the metadata of its page
split_documents(pages, chunk_size, chunk_overlap) ==
    LET F[i \in 0..Len(pages)] ==
            IF i = 0 THEN <<>>
            ELSE LET texts == split_text(pages[i], chunk_size, chunk_overlap)
                 IN F[i - 1] \o [j \in 1..Len(texts) |-> Piece(texts[j], i - 1)]
    IN F[Len(pages)]

----------------------------------------------------------------------------
(* The uploads the model draws from.  A file's content is represented by   *)
(* what the PDF loader makes of it: either the load fails, or it yields    *)
(* the texts of the pages, which the text splitter cuts into pieces.       *)

NameA == "a.pdf"
NameB == "b.PDF"
NameTxt == "n.txt"

\* two pages and three pages of one piece each, the last with the text of a
\* page of the other document; two pages without text
TwoPages == <<Text(50, 0), Text(DisplayChars, 1)>>
ThreePages == <<Text(DisplayChars + 1, 2), Text(7, 3), Text(50, 0)>>
BlankPages == <<"", " \n">>

\* pieces: what split_documents(loader.load()) returns for the file
FileWith(n, sz, c, pages, chunk_size, chunk_overlap) ==
    [filename |-> n, size |-> sz, corrupt |-> c, pages |-> pages,
     pieces |-> IF c THEN <<>> ELSE split_documents(pages, chunk_size, chunk_overlap)]

File(n, sz, c, pages) == FileWith(n, sz, c, pages, CHUNK_SIZE, CHUNK_OVERLAP)

Uploads ==
    { File(NameA, 1, FALSE, TwoPages),
      File(NameB, MAX_UPLOAD_SIZE, FALSE, ThreePages),
      File(NameA, 1, TRUE, <<>>),
      File(NameB, 1, FALSE, BlankPages),
      File(NameTxt, 1, FALSE, TwoPages),
      File(NameA, MAX_UPLOAD_SIZE + 1, FALSE, TwoPages) }

Questions == {"", "what is b"}

Answers == {"x", "I cannot find this information in the provided documents."}

----------------------------------------------------------------------------
(* backend/services/document_processor.py *)

\* Variant of FormatChunks: the chunks are numbered from 1
FormatChunksFromOne(pieces, filename) ==
    [i \in 1..Len(pieces) |->
        [text |-> pieces[i].page_content,
         metadata |-> [source |-> filename,
                       page |-> pieces[i].page,
                       chunk_id |-> i]]]

\* the list built by the enumerate loop of process_pdf
FormatChunks(pieces, filename) ==
    [i \in 1..Len(pieces) |->
        [text |-> pieces[i].page_content,
         metadata |-> [source |-> filename,
                       page |-> pieces[i].page,
                       chunk_id |-> i - 1]]]

\* process_pdf: copy into UPLOAD_DIR, load, split, format; any failure is re-raised
process_pdf(dir, file, filename) ==
    LET copied == dir \cup {filename}
    IN IF file.corrupt
       THEN [raised |-> TRUE, dir |-> copied, chunks |-> <<>>]
       ELSE [raised |-> FALSE, dir |-> copied,
             chunks |-> FormatChunks(file.pieces, filename)]

\* get_uploaded_files: the names matching *.pdf in UPLOAD_DIR
get_uploaded_files(dir) == {f \in dir : EndsWith(f, DotPdf)}

----------------------------------------------------------------------------
(* backend/services/vector_store.py.  The operators take the persisted     *)
(* collection (id, data) and the handle of the VectorStore instance they   *)
(* are called on, and return the outcome ("raised") with the new state.    *)

\* the embedding capability: a deterministic value per text
CharCode(c) == CHOOSE k \in 0..(Len(Alphabet) - 1) : CharAt(Alphabet, k + 1) = c

Embed(text) ==
    IF text = "" THEN 0
    ELSE IF \E k \in 1..Len(Alphabet) : CharAt(Alphabet, k) = CharAt(text, 1)
    THEN (Len(text) + CharCode(CharAt(text, 1))) % EmbedMod
    ELSE Len(text) % EmbedMod

\* a collection id no handle and no collection uses (uuid of a new collection)
FreshId(id, h1, h2) == CHOOSE i \in 1..3 : i \notin {id, h1, h2}

\* Variant of AddTexts: each text is embedded and stored in turn, so a failure
\* at the i-th text leaves the texts before it stored
AddTextsOneByOne(id, data, handle, texts, metadatas, f) ==
    LET entries == [i \in 1..Len(texts) |->
                       [document |-> texts[i],
                        metadata |-> metadatas[i],
                        embedding |-> Embed(texts[i])]]
    IN IF handle # id \/ id = 0 THEN [raised |-> TRUE, data |-> data]
       ELSE IF Len(texts) = 0 THEN [raised |-> f.emptyRaises, data |-> data]
       ELSE IF f.failAt > 0
       THEN [raised |-> TRUE, data |-> data \o SubSeq(entries, 1, f.failAt - 1)]
       ELSE IF f.storeFails THEN [raised |-> TRUE, data |-> data]
       ELSE [raised |-> FALSE, data |-> data \o entries]

\* Chroma.add_texts: embed the whole batch, then one upsert through the handle.
\* failAt = i > 0: the embedding call fails at the i-th text.
AddTexts(id, data, handle, texts, metadatas, f) ==
    LET entries == [i \in 1..Len(texts) |->
                       [document |-> texts[i],
                        metadata |-> metadatas[i],
                        embedding |-> Embed(texts[i])]]
    IN IF f.failAt > 0 THEN [raised |-> TRUE, data |-> data]
       ELSE IF handle # id \/ id = 0 THEN [raised |-> TRUE, data |-> data]
       ELSE IF Len(texts) = 0 THEN [raised |-> f.emptyRaises, data |-> data]
       ELSE IF f.storeFails THEN [raised |-> TRUE, data |-> data]
       ELSE [raised |-> FALSE, data |-> data \o entries]

\* Variant of add_documents: chunks whose text is already stored are skipped
add_documents_dedup(id, data, handle, chunks, f) ==
    LET stored == {data[i].document : i \in 1..Len(data)}
        fresh == SelectSeq(chunks, LAMBDA c : c.text \notin stored)
        texts == [i \in 1..Len(fresh) |-> fresh[i].text]
        metadatas == [i \in 1..Len(fresh) |-> fresh[i].metadata]
    IN IF Len(chunks) > 0 /\ Len(fresh) = 0 THEN [raised |-> FALSE, data |-> data]
       ELSE AddTexts(id, data, handle, texts, metadatas, f)

\* Variant of add_documents: a failing upsert has already written the batch
add_documents_commit_then_fail(id, data, handle, chunks, f) ==
    LET texts == [i \in 1..Len(chunks) |-> chunks[i].text]
        metadatas == [i \in 1..Len(chunks) |-> chunks[i].metadata]
        r == AddTexts(id, data, handle, texts, metadatas, [f EXCEPT !.storeFails = FALSE])
    IN IF f.storeFails THEN [r EXCEPT !.raised = TRUE] ELSE r

\* VectorStore.add_documents
add_documents(id, data, handle, chunks, f) ==
    LET texts == [i \in 1..Len(chunks) |-> chunks[i].text]
        metadatas == [i \in 1..Len(chunks) |-> chunks[i].metadata]
    IN AddTexts(id, data, handle, texts, metadatas, f)

\* distance of a stored entry to the query embedding
Distance(qv, e) == Abs(qv - e.embedding)

\* the positions 1..n of the entries, ordered by ascending distance to the
\* query embedding (earlier insertion first among equals)
RECURSIVE Nearest(_, _, _)
Nearest(data, qv, n) ==
    IF n = 0 THEN <<>>
    ELSE LET rest == Nearest(data, qv, n - 1)
             d == Distance(qv, data[n])
             pos == Cardinality({p \in 1..Len(rest) : Distance(qv, data[rest[p]]) <= d})
         IN SubSeq(rest, 1, pos) \o <<n>> \o SubSeq(rest, pos + 1, Len(rest))

\* Chroma.similarity_search_with_score: the k entries closest to the query
SimilaritySearchWithScore(data, query, k) ==
    LET qv == Embed(query)
        order == Nearest(data, qv, Len(data))
    IN [r \in 1..Min(k, Len(data)) |->
           LET e == data[order[r]]
           IN [doc |-> [page_content |-> e.document, metadata |-> e.metadata],
               score |-> Distance(qv, e)]]

\* Variant of similarity_search: without k, every entry is asked for
similarity_search_default_all(id, data, handle, query, kOpt, embedFails) ==
    LET k == IF kOpt = <<>> THEN Len(data) ELSE kOpt[1]
    IN IF embedFails \/ handle # id \/ id = 0
       THEN [raised |-> TRUE, results |-> <<>>]
       ELSE LET found == SimilaritySearchWithScore(data, query, k)
            IN [raised |-> FALSE,
                results |-> [i \in 1..Len(found) |->
                                [text |-> found[i].doc.page_content,
                                 metadata |-> found[i].doc.metadata,
                                 score |-> found[i].score]]]

\* VectorStore.similarity_search; kOpt = <<>> stands for k=None
similarity_search(id, data, handle, query, kOpt, embedFails) ==
    LET k == IF kOpt = <<>> THEN TOP_K_RESULTS ELSE kOpt[1]
    IN IF embedFails \/ handle # id \/ id = 0
       THEN [raised |-> TRUE, results |-> <<>>]
       ELSE LET found == SimilaritySearchWithScore(data, query, k)
            IN [raised |-> FALSE,
                results |-> [i \in 1..Len(found) |->
                                [text |-> found[i].doc.page_content,
                                 metadata |-> found[i].doc.metadata,
                                 score |-> found[i].score]]]

\* Variant of Retrieve: the first k entries in insertion order, not by distance
RetrieveUnranked(id, data, handle, query, embedFails) ==
    IF embedFails \/ handle # id \/ id = 0
    THEN [raised |-> TRUE, docs |-> <<>>]
    ELSE [raised |-> FALSE,
          docs |-> [i \in 1..Min(TOP_K_RESULTS, Len(data)) |->
                       [page_content |-> data[i].document, metadata |-> data[i].metadata]]]

\* the retriever of get_retriever, applied to a query: the documents alone
Retrieve(id, data, handle, query, embedFails) ==
    IF embedFails \/ handle # id \/ id = 0
    THEN [raised |-> TRUE, docs |-> <<>>]
    ELSE LET found == SimilaritySearchWithScore(data, query, TOP_K_RESULTS)
         IN [raised |-> FALSE, docs |-> [i \in 1..Len(found) |-> found[i].doc]]

\* client.get_collection("documents").count(): raises when the collection
\* does not exist or the store cannot be read
CollectionCount(id, data, lookupFails) ==
    IF lookupFails \/ id = 0
    THEN [raised |-> TRUE, value |-> 0]
    ELSE [raised |-> FALSE, value |-> Len(data)]

\* Variant of get_collection_count: the failure of the lookup is surfaced
get_collection_count_raising(id, data, lookupFails) ==
    CollectionCount(id, data, lookupFails)

\* VectorStore.get_collection_count: the bare except turns any failure into 0
get_collection_count(id, data, lookupFails) ==
    LET c == CollectionCount(id, data, lookupFails)
    IN IF c.raised THEN [raised |-> FALSE, value |-> 0] ELSE c

\* Variant of clear_collection: only the wrapper is re-created, on the
\* collection that is still there
clear_collection_rebind_only(id, data, handle, other, f) ==
    IF f.deleteFails \/ id = 0
    THEN [raised |-> TRUE, deleted |-> FALSE, id |-> id, data |-> data, handle |-> handle]
    ELSE IF f.createFails
    THEN [raised |-> TRUE, deleted |-> TRUE, id |-> id, data |-> data, handle |-> handle]
    ELSE [raised |-> FALSE, deleted |-> TRUE, id |-> id, data |-> data, handle |-> id]

\* Variant of clear_collection: the collection is deleted and no new wrapper
\* is created
clear_collection_delete_only(id, data, handle, other, f) ==
    IF f.deleteFails \/ id = 0
    THEN [raised |-> TRUE, deleted |-> FALSE, id |-> id, data |-> data, handle |-> handle]
    ELSE [raised |-> FALSE, deleted |-> TRUE, id |-> 0, data |-> <<>>, handle |-> handle]

\* VectorStore.clear_collection: delete the collection, then a new Chroma
\* wrapper (get-or-create) replaces the instance's handle
clear_collection(id, data, handle, other, f) ==
    IF f.deleteFails \/ id = 0
    THEN [raised |-> TRUE, deleted |-> FALSE, id |-> id, data |-> data, handle |-> handle]
    ELSE IF f.createFails
    THEN [raised |-> TRUE, deleted |-> TRUE, id |-> 0, data |-> <<>>, handle |-> handle]
    ELSE LET new == FreshId(id, handle, other)
         IN [raised |-> FALSE, deleted |-> TRUE, id |-> new, data |-> <<>>, handle |-> new]

----------------------------------------------------------------------------
(* backend/services/rag_chain.py *)

MetaSource(m) == IF "source" \in DOMAIN m THEN m.source ELSE "Unknown"

MetaPage(m) == IF "page" \in DOMAIN m THEN m.page ELSE 0

\* Variant of FormatSource: the marker is appended only to a truncated text
FormatSourceConditional(doc) ==
    [text |-> IF Len(doc.page_content) <= DisplayChars THEN doc.page_content
              ELSE Take(doc.page_content, DisplayChars) \o Ellipsis,
     source |-> MetaSource(doc.metadata),
     page |-> MetaPage(doc.metadata)]

\* one entry of source_docs
FormatSource(doc) ==
    [text |-> Take(doc.page_content, DisplayChars) \o Ellipsis,
     source |-> MetaSource(doc.metadata),
     page |-> MetaPage(doc.metadata)]

\* Variant of FormatSources: a source and page already listed is not repeated
FormatSourcesDistinct(docs) ==
    LET Seen(i) == \E j \in 1..(i - 1) : docs[j].metadata = docs[i].metadata
        kept == SelectSeq([i \in 1..Len(docs) |-> i], LAMBDA i : ~Seen(i))
    IN [r \in 1..Len(kept) |-> FormatSource(docs[kept[r]])]

\* the source_docs list built from result["source_documents"]
FormatSources(docs) == [i \in 1..Len(docs) |-> FormatSource(docs[i])]

\* Variant of FormatResult: an empty question is replaced by a placeholder
FormatResultDefaultQuestion(generatedText, docs, question) ==
    [answer |-> generatedText, sources |-> FormatSources(docs),
     question |-> IF question = "" THEN "Unknown" ELSE question]

\* the dictionary RAGChain.query returns
FormatResult(generatedText, docs, question) ==
    [answer |-> generatedText, sources |-> FormatSources(docs), question |-> question]

NoResult == [answer |-> "", sources |-> <<>>, question |-> ""]

\* Variant of query: a generation that fails is tried a second time
query_retry_generation(id, data, handle, question, f, generatedText) ==
    LET r == Retrieve(id, data, handle, question, f.embedFails)
    IN IF r.raised
       THEN [raised |-> TRUE, retrievals |-> 1, generations |-> 0,
             docs |-> <<>>, result |-> NoResult]
       ELSE IF f.generateFails
       THEN [raised |-> FALSE, retrievals |-> 1, generations |-> 2,
             docs |-> r.docs, result |-> FormatResult(generatedText, r.docs, question)]
       ELSE [raised |-> FALSE, retrievals |-> 1, generations |-> 1,
             docs |-> r.docs, result |-> FormatResult(generatedText, r.docs, question)]

\* RAGChain.query on the chain's own VectorStore handle: retrieve, generate
\* once, format; any failure is re-raised as "Error processing query"
query(id, data, handle, question, f, generatedText) ==
    LET r == Retrieve(id, data, handle, question, f.embedFails)
    IN IF r.raised
       THEN [raised |-> TRUE, retrievals |-> 1, generations |-> 0,
             docs |-> <<>>, result |-> NoResult]
       ELSE IF f.generateFails
       THEN [raised |-> TRUE, retrievals |-> 1, generations |-> 1,
             docs |-> r.docs, result |-> NoResult]
       ELSE [raised |-> FALSE, retrievals |-> 1, generations |-> 1,
             docs |-> r.docs, result |-> FormatResult(generatedText, r.docs, question)]

\* RAGChain.get_store_stats
get_store_stats(id, data, lookupFails) ==
    LET c == get_collection_count(id, data, lookupFails)
    IN [raised |-> c.raised, document_count |-> c.value]

----------------------------------------------------------------------------
(* Failures of the external capabilities, drawn one at a time per call *)

NoFault ==
    [failAt |-> 0, storeFails |-> FALSE, emptyRaises |-> TRUE, lookupFails |-> FALSE,
     embedFails |-> FALSE, generateFails |-> FALSE, deleteFails |-> FALSE,
     createFails |-> FALSE, writeFails |-> FALSE]

\* upload of n chunks: the embedding fails at one of them, or the upsert fails;
\* an upsert of no ids is rejected by the store or accepted as a no-op
UploadFaults(n) ==
    {[NoFault EXCEPT !.failAt = p] : p \in 0..n}
        \cup (IF n = 0 THEN {[NoFault EXCEPT !.emptyRaises = FALSE]}
              ELSE {[NoFault EXCEPT !.storeFails = TRUE]})

QueryFaults ==
    {NoFault, [NoFault EXCEPT !.lookupFails = TRUE], [NoFault EXCEPT !.embedFails = TRUE],
     [NoFault EXCEPT !.generateFails = TRUE]}

ClearFaults ==
    {NoFault, [NoFault EXCEPT !.deleteFails = TRUE], [NoFault EXCEPT !.createFails = TRUE]}

SearchInputs ==
    {[kOpt |-> k, fault |-> NoFault] : k \in {<<>>, <<1>>, <<2>>, <<MaxEntries + 1>>}}
        \cup {[kOpt |-> <<>>, fault |-> [NoFault EXCEPT !.embedFails = TRUE]]}

----------------------------------------------------------------------------
(* The record of a call *)

NoCall ==
    [op |-> "none", status |-> 0, detail |-> "", raised |-> FALSE, fault |-> NoFault,
     filename |-> "", size |-> 0, extractFailed |-> FALSE, nPieces |-> 0,
     chunks_created |-> 0, question |-> "", generatedText |-> "", result |-> NoResult,
     docs |-> <<>>, retrievals |-> 0, generations |-> 0, count |-> 0, files |-> {},
     results |-> <<>>, kOpt |-> <<>>, store |-> "none", preId |-> 0, preData |-> <<>>,
     preClearRun |-> 0, preDir |-> {}, lookups |-> 0, processed |-> 0, adds |-> 0,
     chunk_size |-> 0, chunk_overlap |-> 0, pages |-> <<>>, chunks |-> <<>>,
     preMessages |-> <<>>, requests |-> 0, safe_filename |-> "", tmpCreated |-> 0,
     preTemp |-> 0, button |-> "", preConfirm |-> FALSE, outcomes |-> <<>>,
     returned |-> "", retriedAfter |-> {}]

\* st.session_state before the page has run
NoSession == [messages |-> <<>>, confirm_clear |-> FALSE]

\* the entries a successful add of these chunks commits
Committed(chunks) ==
    [i \in 1..Len(chunks) |->
        [document |-> chunks[i].text, metadata |-> chunks[i].metadata,
         embedding |-> Embed(chunks[i].text)]]

NoClear == [run |-> 0, removed |-> 0]

Init ==
    /\ collId = 1
    /\ collData = <<>>
    /\ vsHandle = 1
    /\ ragHandle = 1
    /\ uploadDir = {}
    /\ inserted = <<>>
    /\ cleared = NoClear
    /\ resp = NoCall
    /\ inflight = <<>>
    /\ session_state = NoSession
    /\ tempFiles = 0

----------------------------------------------------------------------------
(* backend/main.py: the endpoints *)

\* os.unlink(tmp_file_path) in the finally clause
Unlinked(n) == n - 1

\* Variant of upload_document: the size is checked after the document was
\* processed, so an oversized file has been copied into UPLOAD_DIR
upload_document_size_check_late(file, f) ==
    LET call == [NoCall EXCEPT !.op = "upload", !.filename = file.filename,
                               !.size = file.size, !.preId = collId,
                               !.preData = collData, !.preClearRun = cleared.run,
                               !.preDir = uploadDir, !.preTemp = tempFiles]
    IN IF ~validate_pdf(file.filename)
       THEN /\ resp' = [call EXCEPT !.status = 400, !.detail = "Only PDF files are allowed"]
            /\ UNCHANGED <<collId, collData, vsHandle, ragHandle, uploadDir, inserted,
                           cleared, tempFiles>>
       ELSE LET safe_filename == sanitize_filename(file.filename)
                p == process_pdf(uploadDir, file, safe_filename)
                a == add_documents(collId, collData, vsHandle, p.chunks, f)
                tried == [call EXCEPT !.filename = safe_filename, !.fault = f,
                                      !.extractFailed = file.corrupt,
                                      !.nPieces = Len(file.pieces),
                                      !.processed = 1, !.tmpCreated = 1,
                                      !.adds = IF p.raised THEN 0 ELSE 1]
                failure == [tried EXCEPT !.status = 500, !.raised = TRUE,
                                         !.detail = "Error processing document"]
            IN IF file.size > MAX_UPLOAD_SIZE
               THEN /\ uploadDir' = p.dir
                    /\ resp' = [call EXCEPT !.status = 400, !.detail = "File too large",
                                            !.processed = 1]
                    /\ tempFiles' = Unlinked(tempFiles + 1)
                    /\ UNCHANGED <<collId, collData, vsHandle, ragHandle, inserted,
                                   cleared>>
               ELSE IF p.raised
               THEN /\ uploadDir' = p.dir
                    /\ resp' = failure
                    /\ tempFiles' = Unlinked(tempFiles + 1)
                    /\ UNCHANGED <<collId, collData, vsHandle, ragHandle, inserted,
                                   cleared>>
               ELSE /\ uploadDir' = p.dir
                    /\ collData' = a.data
                    /\ inserted' = IF a.raised THEN inserted
                                   ELSE inserted \o Committed(p.chunks)
                    /\ cleared' = IF a.raised \/ Len(p.chunks) = 0 THEN cleared
                                  ELSE NoClear
                    /\ resp' = IF a.raised THEN failure
                               ELSE [tried EXCEPT !.status = 200,
                                                  !.chunks_created = Len(p.chunks)]
                    /\ tempFiles' = Unlinked(tempFiles + 1)
                    /\ UNCHANGED <<collId, vsHandle, ragHandle>>

\* POST /upload.  The temporary file is created and written before the try
\* block whose finally clause unlinks it: a write that fails leaves it behind.
upload_document(file, f) ==
    LET call == [NoCall EXCEPT !.op = "upload", !.filename = file.filename,
                               !.size = file.size, !.preId = collId,
                               !.preData = collData, !.preClearRun = cleared.run,
                               !.preDir = uploadDir, !.preTemp = tempFiles]
    IN IF ~validate_pdf(file.filename)
       THEN /\ resp' = [call EXCEPT !.status = 400, !.detail = "Only PDF files are allowed"]
            /\ UNCHANGED <<collId, collData, vsHandle, ragHandle, uploadDir, inserted,
                           cleared, tempFiles>>
       ELSE IF file.size > MAX_UPLOAD_SIZE
       THEN /\ resp' = [call EXCEPT !.status = 400, !.detail = "File too large"]
            /\ UNCHANGED <<collId, collData, vsHandle, ragHandle, uploadDir, inserted,
                           cleared, tempFiles>>
       ELSE LET safe_filename == sanitize_filename(file.filename)
                p == process_pdf(uploadDir, file, safe_filename)
                a == add_documents(collId, collData, vsHandle, p.chunks, f)
                tried == [call EXCEPT !.filename = safe_filename, !.fault = f,
                                      !.extractFailed = file.corrupt,
                                      !.nPieces = Len(file.pieces),
                                      !.processed = 1, !.tmpCreated = 1,
                                      !.adds = IF p.raised THEN 0 ELSE 1]
                failure == [tried EXCEPT !.status = 500, !.raised = TRUE,
                                         !.detail = "Error processing document"]
            IN IF f.writeFails
               THEN /\ tempFiles' = tempFiles + 1
                    /\ resp' = [call EXCEPT !.filename = safe_filename, !.fault = f,
                                            !.tmpCreated = 1, !.status = 500,
                                            !.raised = TRUE,
                                            !.detail = "Error processing document"]
                    /\ UNCHANGED <<collId, collData, vsHandle, ragHandle, uploadDir,
                                   inserted, cleared>>
               ELSE IF p.raised
               THEN /\ uploadDir' = p.dir
                    /\ resp' = failure
                    /\ tempFiles' = Unlinked(tempFiles + 1)
                    /\ UNCHANGED <<collId, collData, vsHandle, ragHandle, inserted,
                                   cleared>>
               ELSE /\ uploadDir' = p.dir
                    /\ collData' = a.data
                    /\ inserted' = IF a.raised THEN inserted
                                   ELSE inserted \o Committed(p.chunks)
                    /\ cleared' = IF a.raised \/ Len(p.chunks) = 0 THEN cleared
                                  ELSE NoClear
                    /\ resp' = IF a.raised THEN failure
                               ELSE [tried EXCEPT !.status = 200,
                                                  !.chunks_created = Len(p.chunks)]
                    /\ tempFiles' = Unlinked(tempFiles + 1)
                    /\ UNCHANGED <<collId, vsHandle, ragHandle>>

UploadDocument ==
    /\ \E file \in Uploads :
          /\ Len(collData) + Len(file.pieces) <= MaxEntries
          /\ IF validate_pdf(file.filename) /\ file.size <= MAX_UPLOAD_SIZE
             THEN \E f \in UploadFaults(Len(file.pieces)) : upload_document(file, f)
             ELSE upload_document(file, NoFault)
    /\ UNCHANGED <<inflight, session_state>>

\* Variant of query_documents: the chain is run without the count check
query_documents_unchecked(question, f, generatedText) ==
    LET call == [NoCall EXCEPT !.op = "query", !.question = question, !.fault = f]
        q == query(collId, collData, ragHandle, question, f, generatedText)
    IN /\ resp' = IF q.raised
                  THEN [call EXCEPT !.status = 500, !.raised = TRUE,
                                    !.detail = "Error processing query",
                                    !.retrievals = q.retrievals,
                                    !.generations = q.generations]
                  ELSE [call EXCEPT !.status = 200,
                                    !.retrievals = q.retrievals,
                                    !.generations = q.generations,
                                    !.generatedText = generatedText,
                                    !.docs = q.docs, !.result = q.result]
       /\ UNCHANGED <<collId, collData, vsHandle, ragHandle, uploadDir, inserted, cleared>>

\* POST /query: the response
QueryResponse(question, f, generatedText) ==
    LET call == [NoCall EXCEPT !.op = "query", !.question = question, !.fault = f,
                               !.lookups = 1]
        c == get_collection_count(collId, collData, f.lookupFails)
        q == query(collId, collData, ragHandle, question, f, generatedText)
    IN IF c.raised
       THEN [call EXCEPT !.status = 500, !.raised = TRUE,
                         !.detail = "Error processing query"]
       ELSE IF c.value = 0
       THEN [call EXCEPT !.status = 400, !.count = c.value,
                         !.detail = "No documents available"]
       ELSE IF q.raised
       THEN [call EXCEPT !.status = 500, !.raised = TRUE,
                         !.detail = "Error processing query",
                         !.count = c.value, !.retrievals = q.retrievals,
                         !.generations = q.generations]
       ELSE [call EXCEPT !.status = 200, !.count = c.value,
                         !.retrievals = q.retrievals,
                         !.generations = q.generations,
                         !.generatedText = generatedText,
                         !.docs = q.docs, !.result = q.result]

\* POST /query
query_documents(question, f, generatedText) ==
    /\ resp' = QueryResponse(question, f, generatedText)
    /\ UNCHANGED <<collId, collData, vsHandle, ragHandle, uploadDir, inserted, cleared>>

QueryDocuments ==
    /\ \E question \in Questions :
          \/ \E generatedText \in Answers : query_documents(question, NoFault, generatedText)
          \/ \E f \in QueryFaults \ {NoFault} : query_documents(question, f, "")
    /\ UNCHANGED <<inflight, session_state, tempFiles>>

\* DELETE /documents
clear_documents(f) ==
    LET call == [NoCall EXCEPT !.op = "clear", !.fault = f, !.preId = collId,
                               !.preData = collData, !.preClearRun = cleared.run]
        c == clear_collection(collId, collData, vsHandle, ragHandle, f)
    IN /\ collId' = c.id
       /\ collData' = c.data
       /\ vsHandle' = c.handle
       /\ inserted' = IF c.deleted THEN <<>> ELSE inserted
       /\ cleared' = IF ~c.raised
                     THEN IF cleared.run = 0
                          THEN [run |-> 1, removed |-> Len(collData)]
                          ELSE [cleared EXCEPT !.run = Min(cleared.run + 1, MaxClearRun)]
                     ELSE IF c.deleted THEN NoClear ELSE cleared
       /\ resp' = IF c.raised
                  THEN [call EXCEPT !.status = 500, !.raised = TRUE,
                                    !.detail = "Error clearing documents"]
                  ELSE [call EXCEPT !.status = 200,
                                    !.detail = "All documents cleared successfully"]
       /\ UNCHANGED <<ragHandle, uploadDir>>

ClearDocuments ==
    /\ \E f \in ClearFaults : clear_documents(f)
    /\ UNCHANGED <<inflight, session_state, tempFiles>>

\* GET /stats: the count is read through rag_chain's VectorStore
get_stats(lookupFails) ==
    LET stats == get_store_stats(collId, collData, lookupFails)
        call == [NoCall EXCEPT !.op = "stats",
                               !.fault = [NoFault EXCEPT !.lookupFails = lookupFails]]
    IN /\ resp' = IF stats.raised
                  THEN [call EXCEPT !.status = 500, !.raised = TRUE,
                                    !.detail = "Error getting stats"]
                  ELSE [call EXCEPT !.status = 200, !.count = stats.document_count,
                                    !.files = get_uploaded_files(uploadDir)]
       /\ UNCHANGED <<collId, collData, vsHandle, ragHandle, uploadDir, inserted, cleared>>

GetStats ==
    /\ \E lookupFails \in BOOLEAN : get_stats(lookupFails)
    /\ UNCHANGED <<inflight, session_state, tempFiles>>

\* GET /health: the count is read through main's VectorStore
health_check(lookupFails) ==
    LET c == get_collection_count(collId, collData, lookupFails)
        call == [NoCall EXCEPT !.op = "health",
                               !.fault = [NoFault EXCEPT !.lookupFails = lookupFails]]
    IN /\ resp' = IF c.raised
                  THEN [call EXCEPT !.status = 500, !.raised = TRUE,
                                    !.detail = "Health check failed"]
                  ELSE [call EXCEPT !.status = 200, !.detail = "healthy",
                                    !.count = c.value,
                                    !.files = get_uploaded_files(uploadDir)]
       /\ UNCHANGED <<collId, collData, vsHandle, ragHandle, uploadDir, inserted, cleared>>

HealthCheck ==
    /\ \E lookupFails \in BOOLEAN : health_check(lookupFails)
    /\ UNCHANGED <<inflight, session_state, tempFiles>>

\* VectorStore.similarity_search called on one of the two instances
SimilaritySearch ==
    \E store \in {"main", "rag"}, q \in Questions, in \in SearchInputs :
        LET handle == IF store = "main" THEN vsHandle ELSE ragHandle
            r == similarity_search(collId, collData, handle, q, in.kOpt,
                                   in.fault.embedFails)
        IN /\ resp' = [NoCall EXCEPT !.op = "search", !.store = store, !.question = q,
                                     !.kOpt = in.kOpt, !.fault = in.fault,
                                     !.raised = r.raised, !.retrievals = 1,
                                     !.results = r.results]
           /\ UNCHANGED <<collId, collData, vsHandle, ragHandle, uploadDir, inserted,
                          cleared, inflight, session_state, tempFiles>>

\* process start on the persisted directory: both VectorStore instances get
\* (or create) the collection named "documents"
Restart ==
    LET id == IF collId = 0 THEN FreshId(0, vsHandle, ragHandle) ELSE collId
    IN /\ collId' = id
       /\ collData' = IF collId = 0 THEN <<>> ELSE collData
       /\ vsHandle' = id
       /\ ragHandle' = id
       /\ resp' = [NoCall EXCEPT !.op = "restart"]
       /\ UNCHANGED <<uploadDir, inserted, cleared, inflight, session_state, tempFiles>>

Next ==
    \/ UploadDocument
    \/ QueryDocuments
    \/ ClearDocuments
    \/ GetStats
    \/ HealthCheck
    \/ SimilaritySearch
    \/ Restart

Spec == Init /\ [][Next]_vars

----------------------------------------------------------------------------
(* DocumentProcessor.process_pdf on its own: a DocumentProcessor built from  *)
(* the settings (CHUNK_SIZE and CHUNK_OVERLAP are read from the environment, *)
(* the tests run with 500 and 50) is given a document.                       *)

\* longest page text of the exhaustive part
MaxPageLen == 5

Chars == {"a", "b", " ", "\n", "\t"}

\* every text of at most n characters of Chars
RECURSIVE Strings(_)
Strings(n) ==
    IF n = 0 THEN {""}
    ELSE LET shorter == Strings(n - 1)
         IN shorter \cup {t \o c : t \in shorter, c \in Chars}

\* k copies of s
RECURSIVE Rep(_, _)
Rep(s, k) ==
    IF k = 0 THEN ""
    ELSE IF k = 1 THEN s
    ELSE Rep(s, k \div 2) \o Rep(s, k - (k \div 2))

Settings(size, overlap) == [chunk_size |-> size, chunk_overlap |-> overlap]

ConfiguredSettings == Settings(CHUNK_SIZE, CHUNK_OVERLAP)

SmallSettings == {Settings(3, 1), Settings(4, 2)}

Doc(settings, filename, corrupt, pages) ==
    [settings |-> settings, filename |-> filename, corrupt |-> corrupt, pages |-> pages]

ShortPages == {"", "abab", "ab ba", "a\tb"}

LongDocs ==
    {Doc(ConfiguredSettings, NameA, FALSE, pages) :
        pages \in { <<Rep("a", 1500)>>,
                    <<Text(1500, 0)>>,
                    <<Text(1001, 1)>>,
                    <<Text(2401, 2)>>,
                    <<Text(999, 0) \o "\t" \o Text(500, 0)>>,
                    <<Rep("abcd ", 300)>>,
                    <<Text(1200, 0), Text(1200, 3)>> }}
        \cup {Doc(Settings(500, 50), NameA, FALSE, <<Text(700, 0)>>)}

Docs ==
    {Doc(st, NameA, FALSE, <<t>>) : st \in SmallSettings, t \in Strings(MaxPageLen)}
        \cup {Doc(st, n, c, <<t1, t2>>) :
                 st \in SmallSettings, n \in {NameA, NameB}, c \in BOOLEAN,
                 t1 \in ShortPages, t2 \in ShortPages}
        \cup {Doc(st, NameA, FALSE, <<>>) : st \in SmallSettings}
        \cup LongDocs

ChunkInit ==
    /\ collId = 1
    /\ collData = <<>>
    /\ vsHandle = 1
    /\ ragHandle = 1
    /\ uploadDir = {}
    /\ inserted = <<>>
    /\ cleared = NoClear
    /\ inflight = <<>>
    /\ session_state = NoSession
    /\ tempFiles = 0
    /\ resp \in {[NoCall EXCEPT !.op = "process_pdf", !.filename = d.filename,
                                !.extractFailed = d.corrupt,
                                !.chunk_size = d.settings.chunk_size,
                                !.chunk_overlap = d.settings.chunk_overlap,
                                !.pages = d.pages] : d \in Docs}

\* await doc_processor.process_pdf(tmp_file_path, filename)
ProcessPdf ==
    /\ resp.op = "process_pdf"
    /\ resp.processed = 0
    /\ LET file == FileWith(resp.filename, 1, resp.extractFailed, resp.pages,
                            resp.chunk_size, resp.chunk_overlap)
           p == process_pdf(uploadDir, file, resp.filename)
       IN /\ uploadDir' = p.dir
          /\ resp' = [resp EXCEPT !.processed = 1, !.raised = p.raised,
                                  !.nPieces = Len(file.pieces), !.chunks = p.chunks]
    /\ UNCHANGED <<collId, collData, vsHandle, ragHandle, inserted, cleared, inflight,
                   session_state, tempFiles>>

ChunkNext == ProcessPdf

ChunkSpec == ChunkInit /\ [][ChunkNext]_vars

----------------------------------------------------------------------------
(* sanitize_filename on its own: the function is given a file name *)

\* longest file name given
MaxNameLen == 4

NameChars == {"a", ".", "/", "@", "-"}

\* every name of at most n characters of NameChars
RECURSIVE Names(_)
Names(n) ==
    IF n = 0 THEN {""}
    ELSE LET shorter == Names(n - 1)
         IN shorter \cup {t \o c : t \in shorter, c \in NameChars}

NameInit ==
    /\ collId = 1
    /\ collData = <<>>
    /\ vsHandle = 1
    /\ ragHandle = 1
    /\ uploadDir = {}
    /\ inserted = <<>>
    /\ cleared = NoClear
    /\ inflight = <<>>
    /\ session_state = NoSession
    /\ tempFiles = 0
    /\ resp \in {[NoCall EXCEPT !.op = "sanitize", !.filename = n] : n \in Names(MaxNameLen)}

\* safe_filename = sanitize_filename(file.filename)
SanitizeFilename ==
    /\ resp.op = "sanitize"
    /\ resp.processed = 0
    /\ resp' = [resp EXCEPT !.processed = 1,
                            !.safe_filename = sanitize_filename(resp.filename)]
    /\ UNCHANGED <<collId, collData, vsHandle, ragHandle, uploadDir, inserted, cleared,
                   inflight, session_state, tempFiles>>

NameNext == SanitizeFilename

NameSpec == NameInit /\ [][NameNext]_vars

----------------------------------------------------------------------------
(* The temporary directory: uploads whose temporary file may fail to be    *)
(* written (the disk is full), next to the failures of process_pdf and     *)
(* add_documents                                                           *)

\* most files left in the temporary directory
MaxTempFiles == 2

TempUploads ==
    { File(NameA, 1, FALSE, TwoPages),
      File(NameB, MAX_UPLOAD_SIZE, FALSE, ThreePages),
      File(NameA, 1, TRUE, <<>>),
      File(NameTxt, 1, FALSE, TwoPages),
      File(NameA, MAX_UPLOAD_SIZE + 1, FALSE, TwoPages) }

TempUpload ==
    /\ \E file \in TempUploads :
          /\ Len(collData) + Len(file.pieces) <= MaxEntries
          /\ \/ \E f \in UploadFaults(Len(file.pieces)) : upload_document(file, f)
             \/ /\ tempFiles < MaxTempFiles
                /\ upload_document(file, [NoFault EXCEPT !.writeFails = TRUE])
    /\ UNCHANGED <<inflight, session_state>>

TempNext ==
    \/ TempUpload
    \/ ClearDocuments

TempSpec == Init /\ [][TempNext]_vars

----------------------------------------------------------------------------
(* Requests in flight.  The endpoints are coroutines run by the one event   *)
(* loop of uvicorn.run(app): a handler runs uninterrupted from one await    *)
(* that suspends to the next.  upload_document suspends at                  *)
(* "await file.read()", after validate_pdf and before it touches anything;  *)
(* process_pdf contains no await, and add_documents, get_collection_count   *)
(* and rag_chain.query are plain calls that hold the loop.                  *)

\* most requests suspended at a time
MaxInflight == 2

ConcUploads ==
    { File(NameA, 1, FALSE, TwoPages),
      File(NameB, MAX_UPLOAD_SIZE, FALSE, ThreePages),
      File(NameA, 1, TRUE, <<>>),
      File(NameTxt, 1, FALSE, TwoPages) }

Suspended(file) == [file |-> file, stored |-> 0]

Without(seq, i) == SubSeq(seq, 1, i - 1) \o SubSeq(seq, i + 1, Len(seq))

\* POST /upload up to "await file.read()"
ReceiveUpload ==
    /\ Len(inflight) < MaxInflight
    /\ \E file \in ConcUploads :
          IF ~validate_pdf(file.filename)
          THEN upload_document(file, NoFault) /\ UNCHANGED inflight
          ELSE /\ inflight' = Append(inflight, Suspended(file))
               /\ UNCHANGED <<collId, collData, vsHandle, ragHandle, uploadDir, inserted,
                              cleared, resp, tempFiles>>
    /\ UNCHANGED session_state

\* Variant of resume_upload: the loop is released after each entry is stored
resume_upload_entry_wise(i, f) ==
    LET r == inflight[i]
        file == r.file
        chunks == FormatChunks(file.pieces, sanitize_filename(file.filename))
    IN IF file.corrupt \/ f # NoFault \/ file.size > MAX_UPLOAD_SIZE \/ Len(chunks) = 0
             \/ vsHandle # collId
       THEN /\ r.stored = 0
            /\ upload_document(file, f)
            /\ inflight' = Without(inflight, i)
       ELSE /\ collData' = Append(collData, Committed(chunks)[r.stored + 1])
            /\ uploadDir' = uploadDir \cup {sanitize_filename(file.filename)}
            /\ IF r.stored + 1 = Len(chunks)
               THEN /\ inflight' = Without(inflight, i)
                    /\ inserted' = inserted \o Committed(chunks)
                    /\ resp' = [NoCall EXCEPT !.op = "upload", !.status = 200,
                                              !.filename = sanitize_filename(file.filename),
                                              !.nPieces = Len(chunks),
                                              !.chunks_created = Len(chunks),
                                              !.preId = collId,
                                              !.preData = SubSeq(collData, 1,
                                                                 Len(collData) - r.stored)]
               ELSE /\ inflight' = [inflight EXCEPT ![i].stored = r.stored + 1]
                    /\ UNCHANGED <<inserted, resp>>
            /\ UNCHANGED <<collId, vsHandle, ragHandle, cleared, tempFiles>>

\* POST /upload from "await file.read()" to the response
resume_upload(i, f) ==
    /\ inflight[i].stored = 0
    /\ upload_document(inflight[i].file, f)
    /\ inflight' = Without(inflight, i)

ResumeUpload ==
    /\ \E i \in 1..Len(inflight) :
          /\ Len(collData) + Len(inflight[i].file.pieces) <= MaxEntries
          /\ \E f \in UploadFaults(Len(inflight[i].file.pieces)) : resume_upload(i, f)
    /\ UNCHANGED session_state

ConcNext ==
    \/ ReceiveUpload
    \/ ResumeUpload
    \/ QueryDocuments
    \/ SimilaritySearch

ConcSpec == Init /\ [][ConcNext]_vars

----------------------------------------------------------------------------
(* frontend/components/query.py and frontend/api_client.py: the chat of the *)
(* Streamlit page                                                           *)

\* Retry(total=3)
RetryTotal == 3

\* most messages the chat is let grow to
MaxMessages == 4

ErrorMsg == "Sorry, I couldn't process your question. Please try again."

Message(role, content, sources) == [role |-> role, content |-> content, sources |-> sources]

\* str.strip()
Strip(text) ==
    LET kept == JoinDocs(text, 1, Len(text))
    IN IF kept = <<>> THEN "" ELSE kept[1]

UiQuestions == {"", " ", "what is b"}

\* the outcome of a request sent again while the answer is a 500, RetryTotal
\* times at most, when the first `failures` requests get the response `faulty`
\* and the later ones the response `sound`
Retried(faulty, sound, failures) ==
    IF failures = 0 THEN
         [last |-> sound, requests |-> IF sound.status = 500 THEN RetryTotal + 1 ELSE 1]
    ELSE IF faulty.status # 500 THEN [last |-> faulty, requests |-> 1]
    ELSE IF failures > RetryTotal THEN [last |-> faulty, requests |-> RetryTotal + 1]
    ELSE [last |-> sound,
          requests |-> IF sound.status = 500 THEN RetryTotal + 1 ELSE failures + 1]

\* APIClient.query_documents: the session sends POST /query with its retries;
\* the first `failures` requests meet the fault f, the later ones meet none.
\* The outcome is the last response and the number of requests sent; the caller
\* gets the body of a 200 and None otherwise.
APIClient_query_documents(question, f, generatedText, failures) ==
    Retried(QueryResponse(question, f, ""),
            QueryResponse(question, NoFault, generatedText), failures)

\* Variant of chat_messages: a failed question leaves the chat as it was
chat_messages_forget_failure(messages, question, last) ==
    IF last.status = 200
    THEN messages \o <<Message("user", question, <<>>),
                       Message("assistant", last.result.answer, last.result.sources)>>
    ELSE messages

\* the chat after a question got the response `last`
chat_messages(messages, question, last) ==
    messages
      \o <<Message("user", question, <<>>)>>
      \o (IF last.status = 200
          THEN <<Message("assistant", last.result.answer, last.result.sources)>>
          ELSE <<Message("assistant", ErrorMsg, <<>>)>>)

\* the page once the client returned `out` for the question
chat_input(question, out) ==
    /\ IF Len(Strip(question)) = 0
       THEN /\ resp' = [NoCall EXCEPT !.op = "ask", !.question = question,
                                      !.preMessages = session_state.messages,
                                      !.preId = collId, !.preData = collData]
            /\ UNCHANGED session_state
       ELSE /\ resp' = [out.last EXCEPT !.op = "ask",
                                        !.preMessages = session_state.messages,
                                        !.preId = collId, !.preData = collData,
                                        !.requests = out.requests]
            /\ session_state' =
                  [session_state EXCEPT !.messages =
                      chat_messages(session_state.messages, question, out.last)]
    /\ UNCHANGED <<collId, collData, vsHandle, ragHandle, uploadDir, inserted, cleared,
                   inflight, tempFiles>>

\* render_query_section when a question is entered in the chat input
render_query_section(question, f, generatedText, failures) ==
    chat_input(question, APIClient_query_documents(question, f, generatedText, failures))

AskQuestion ==
    /\ Len(session_state.messages) + 2 <= MaxMessages
    /\ \E question \in UiQuestions :
          \/ render_query_section(question, NoFault, "x", 0)
          \/ \E f \in QueryFaults \ {NoFault}, failures \in 1..(RetryTotal + 1) :
                render_query_section(question, f, "x", failures)

\* the "Clear Chat" button
ClearChat ==
    /\ session_state.messages # <<>>
    /\ session_state' = [session_state EXCEPT !.messages = <<>>]
    /\ resp' = [NoCall EXCEPT !.op = "clear_chat"]
    /\ UNCHANGED <<collId, collData, vsHandle, ragHandle, uploadDir, inserted, cleared,
                   inflight, tempFiles>>

\* a document is uploaded, or the documents are cleared, while the page is open
UiUpload ==
    /\ Len(collData) + Len(TwoPages) <= MaxEntries
    /\ upload_document(File(NameA, 1, FALSE, TwoPages), NoFault)
    /\ UNCHANGED <<inflight, session_state>>

UiClear ==
    /\ clear_documents(NoFault)
    /\ UNCHANGED <<inflight, session_state, tempFiles>>

\* APIClient.clear_documents: the session sends DELETE /documents and sends it
\* again while the answer is a 500, RetryTotal times at most; every request
\* runs clear_collection on main's VectorStore.  The first `failures` requests
\* meet the fault f, the later ones meet none; `sent` requests were sent before.
RECURSIVE APIClient_clear_documents(_, _, _, _, _, _, _)
APIClient_clear_documents(id, data, handle, other, f, failures, sent) ==
    LET c == clear_collection(id, data, handle, other,
                              IF sent < failures THEN f ELSE NoFault)
    IN IF ~c.raised
       THEN [ok |-> TRUE, requests |-> sent + 1, deleted |-> TRUE,
             id |-> c.id, data |-> c.data, handle |-> c.handle]
       ELSE IF sent >= RetryTotal
       THEN [ok |-> FALSE, requests |-> sent + 1, deleted |-> c.deleted,
             id |-> c.id, data |-> c.data, handle |-> c.handle]
       ELSE LET rest == APIClient_clear_documents(c.id, c.data, c.handle, other, f,
                                                  failures, sent + 1)
            IN [rest EXCEPT !.deleted = c.deleted \/ rest.deleted]

Buttons == {"clear_all", "yes", "cancel"}

\* Variant of clear_dialog: "Yes, Delete All" acts whether or not the
\* confirmation was asked for
clear_dialog_unconfirmed(button, f, out) ==
    LET confirm == session_state.confirm_clear
        shown == button = "clear_all" \/ confirm
        call == [NoCall EXCEPT !.op = "render_clear", !.button = button, !.fault = f,
                               !.preConfirm = confirm,
                               !.preMessages = session_state.messages,
                               !.preId = collId, !.preData = collData]
    IN /\ IF button = "yes"
          THEN /\ collId' = out.id
               /\ collData' = out.data
               /\ vsHandle' = out.handle
               /\ inserted' = IF out.deleted THEN <<>> ELSE inserted
               /\ cleared' = IF out.ok
                             THEN IF cleared.run = 0
                                  THEN [run |-> 1, removed |-> Len(collData)]
                                  ELSE [cleared EXCEPT
                                           !.run = Min(cleared.run + 1, MaxClearRun)]
                             ELSE IF out.deleted THEN NoClear ELSE cleared
               /\ session_state' = IF out.ok
                                   THEN [session_state EXCEPT !.confirm_clear = FALSE,
                                                              !.messages = <<>>]
                                   ELSE session_state
               /\ resp' = [call EXCEPT !.requests = out.requests,
                                       !.status = IF out.ok THEN 200 ELSE 500]
          ELSE /\ session_state' =
                     [session_state EXCEPT
                         !.confirm_clear = IF shown /\ button = "cancel" THEN FALSE
                                           ELSE shown]
               /\ resp' = call
               /\ UNCHANGED <<collId, collData, vsHandle, inserted, cleared>>
       /\ UNCHANGED <<ragHandle, uploadDir, inflight, tempFiles>>

\* one run of render_clear_documents with the button that was clicked, `out`
\* being what the client returns if it is called.  The confirmation buttons
\* are rendered only while confirm_clear is set: a click on one of them in
\* any other run is not seen.
clear_dialog(button, f, out) ==
    LET confirm == session_state.confirm_clear
        shown == button = "clear_all" \/ confirm
        call == [NoCall EXCEPT !.op = "render_clear", !.button = button, !.fault = f,
                               !.preConfirm = confirm,
                               !.preMessages = session_state.messages,
                               !.preId = collId, !.preData = collData]
    IN /\ IF shown /\ button = "yes"
          THEN /\ collId' = out.id
               /\ collData' = out.data
               /\ vsHandle' = out.handle
               /\ inserted' = IF out.deleted THEN <<>> ELSE inserted
               /\ cleared' = IF out.ok
                             THEN IF cleared.run = 0
                                  THEN [run |-> 1, removed |-> Len(collData)]
                                  ELSE [cleared EXCEPT
                                           !.run = Min(cleared.run + 1, MaxClearRun)]
                             ELSE IF out.deleted THEN NoClear ELSE cleared
               /\ session_state' = IF out.ok
                                   THEN [session_state EXCEPT !.confirm_clear = FALSE,
                                                              !.messages = <<>>]
                                   ELSE session_state
               /\ resp' = [call EXCEPT !.requests = out.requests,
                                       !.status = IF out.ok THEN 200 ELSE 500]
          ELSE /\ session_state' =
                     [session_state EXCEPT
                         !.confirm_clear = IF shown /\ button = "cancel" THEN FALSE
                                           ELSE shown]
               /\ resp' = call
               /\ UNCHANGED <<collId, collData, vsHandle, inserted, cleared>>
       /\ UNCHANGED <<ragHandle, uploadDir, inflight, tempFiles>>

render_clear_documents(button, f, failures) ==
    clear_dialog(button, f,
                 APIClient_clear_documents(collId, collData, vsHandle, ragHandle, f,
                                           failures, 0))

ClearDialog ==
    \E button \in Buttons :
        \/ render_clear_documents(button, NoFault, 0)
        \/ /\ button = "yes"
           /\ \E f \in ClearFaults \ {NoFault}, failures \in 1..(RetryTotal + 1) :
                 render_clear_documents(button, f, failures)

UiNext ==
    \/ AskQuestion
    \/ ClearChat
    \/ ClearDialog
    \/ UiUpload
    \/ UiClear

UiSpec == Init /\ [][UiNext]_vars

----------------------------------------------------------------------------
(* frontend/api_client.py: one call of APIClient.upload_document or        *)
(* APIClient.query_documents on its own.  The session's adapter re-sends a *)
(* request (POST is among allowed_methods) when no response arrives or the *)
(* response has a status of status_forcelist, until Retry(total) is used   *)
(* up; it then raises.  The call is given what each request sent meets.    *)

\* number of requests whose outcome is given
MaxOutcomes == 4

status_forcelist == {429, 500, 502, 503, 504}

\* the request got no response: the connection failed or timed out
NoResponse == 0

Outcomes == {200, 400} \cup status_forcelist \cup {NoResponse}

\* what the i-th request sent meets
OutcomeAt(outcomes, i) == IF i <= Len(outcomes) THEN outcomes[i] ELSE 200

\* Variant of session_request: every response but a 200 is retried
RECURSIVE session_request_retry_any_error(_, _)
session_request_retry_any_error(outcomes, sent) ==
    LET o == OutcomeAt(outcomes, sent + 1)
    IN IF o # 200
       THEN IF sent < RetryTotal
            THEN LET rest == session_request_retry_any_error(outcomes, sent + 1)
                 IN [rest EXCEPT !.retriedAfter = @ \cup {o}]
            ELSE [requests |-> sent + 1, raised |-> TRUE, status |-> o,
                  retriedAfter |-> {}]
       ELSE [requests |-> sent + 1, raised |-> FALSE, status |-> o, retriedAfter |-> {}]

\* session.post through HTTPAdapter(max_retries=Retry(total=3, ...)), `sent`
\* requests having been sent before
RECURSIVE session_request(_, _)
session_request(outcomes, sent) ==
    LET o == OutcomeAt(outcomes, sent + 1)
    IN IF o = NoResponse \/ o \in status_forcelist
       THEN IF sent < RetryTotal
            THEN LET rest == session_request(outcomes, sent + 1)
                 IN [rest EXCEPT !.retriedAfter = @ \cup {o}]
            ELSE [requests |-> sent + 1, raised |-> TRUE, status |-> o,
                  retriedAfter |-> {}]
       ELSE [requests |-> sent + 1, raised |-> FALSE, status |-> o, retriedAfter |-> {}]

\* APIClient.upload_document and APIClient.query_documents: the body of a 200,
\* None after any other response or an exception
APIClient_call(out) ==
    IF ~out.raised /\ out.status = 200 THEN "json" ELSE "None"

RECURSIVE OutcomeSeqs(_)
OutcomeSeqs(n) ==
    IF n = 0 THEN {<<>>}
    ELSE {Append(t, o) : t \in OutcomeSeqs(n - 1), o \in Outcomes}

RetryInit ==
    /\ collId = 1
    /\ collData = <<>>
    /\ vsHandle = 1
    /\ ragHandle = 1
    /\ uploadDir = {}
    /\ inserted = <<>>
    /\ cleared = NoClear
    /\ inflight = <<>>
    /\ session_state = NoSession
    /\ tempFiles = 0
    /\ resp \in {[NoCall EXCEPT !.op = op, !.outcomes = t] :
                    op \in {"api_upload", "api_query"}, t \in OutcomeSeqs(MaxOutcomes)}

ApiCall ==
    /\ resp.op \in {"api_upload", "api_query"}
    /\ resp.processed = 0
    /\ LET out == session_request(resp.outcomes, 0)
       IN resp' = [resp EXCEPT !.processed = 1, !.requests = out.requests,
                               !.raised = out.raised, !.status = out.status,
                               !.retriedAfter = out.retriedAfter,
                               !.returned = APIClient_call(out)]
    /\ UNCHANGED <<collId, collData, vsHandle, ragHandle, uploadDir, inserted, cleared,
                   inflight, session_state, tempFiles>>

RetryNext == ApiCall

RetrySpec == RetryInit /\ [][RetryNext]_vars

----------------------------------------------------------------------------
(* Properties *)

\* what count() is in the current state
Count == IF collId = 0 THEN 0 ELSE Len(collData)

\* the upload met a failure of extraction, embedding or storage
UploadFailed(r) == r.extractFailed \/ r.fault.failAt > 0 \/ r.fault.storeFails

UploadOk == resp.op = "upload" /\ resp.status = 200

QueryOk == resp.op = "query" /\ resp.status = 200

\* C1: after a successful upload the index count is the count before the call
\* plus chunks_created, whatever the index held before (also the same chunks).
C1_UploadAddsChunkCount ==
    UploadOk =>
        /\ resp.chunks_created = resp.nPieces
        /\ resp.preId # 0
        /\ Count = Len(resp.preData) + resp.chunks_created

\* a successful upload of two chunks that the index already held
C1_Witness ==
    /\ UploadOk
    /\ resp.chunks_created = 2
    /\ \E i \in 1..(Len(resp.preData) - 1) :
          /\ resp.preData[i] = collData[Len(collData) - 1]
          /\ resp.preData[i + 1] = collData[Len(collData)]

\* C2: an upload that meets an extraction, embedding or storage failure
\* raises, and a failed upload leaves the collection as it was before the call.
C2_FailedIngestLeavesIndex ==
    resp.op = "upload" =>
        /\ UploadFailed(resp) => (resp.status = 500 /\ resp.raised)
        /\ resp.status = 500 =>
              /\ collId = resp.preId
              /\ collData = resp.preData
              /\ Count = (IF resp.preId = 0 THEN 0 ELSE Len(resp.preData))

\* the embedding fails at the second of three chunks, on a non-empty index
C2_Witness ==
    /\ resp.op = "upload"
    /\ resp.status = 500
    /\ resp.nPieces = 3
    /\ resp.fault.failAt = 2
    /\ Len(resp.preData) > 0

\* C3: while a successful clear is the last change of the index, count is 0,
\* /stats and /health report 0 and a search that returns, returns nothing; a
\* search on the cleared VectorStore returns unless the embedding fails.
C3_ClearedIndexIsEmpty ==
    cleared.run > 0 =>
        /\ collId # 0
        /\ Count = 0
        /\ resp.op \in {"stats", "health"} => (resp.status = 200 /\ resp.count = 0)
        /\ (resp.op = "search" /\ ~resp.raised) => resp.results = <<>>
        /\ (resp.op = "search" /\ resp.store = "main" /\ ~resp.fault.embedFails)
              => ~resp.raised

\* /stats right after a clear that removed five entries or more
C3_Witness ==
    /\ cleared.run = 1
    /\ cleared.removed >= 5
    /\ resp.op = "stats"
    /\ ~resp.fault.lookupFails
    /\ resp.count = 0

\* C4: after one or more successful clears in a row, an upload of N >= 1
\* chunks that meets no failure succeeds and count is N.
C4_ClearLeavesUsableCollection ==
    ( /\ resp.op = "upload"
      /\ resp.preClearRun > 0
      /\ resp.nPieces > 0
      /\ ~UploadFailed(resp) )
        => /\ resp.status = 200
           /\ Count = resp.nPieces

\* three chunks stored after two clears in a row
C4_Witness ==
    /\ UploadOk
    /\ resp.preClearRun >= 2
    /\ resp.preData = <<>>
    /\ Count = 3

\* the entry e is one of the entries inserted since the last delete
IsLive(text, metadata) ==
    \E j \in 1..Len(inserted) :
        inserted[j].document = text /\ inserted[j].metadata = metadata

\* C5: what count counts, what a search returns and what a query cites was
\* stored by a successful insert that no later clear removed.
C5_EntriesComeFromLiveInserts ==
    /\ Count = Len(inserted)
    /\ collId # 0 => collData = inserted
    /\ resp.op = "search" =>
          \A i \in 1..Len(resp.results) :
              IsLive(resp.results[i].text, resp.results[i].metadata)
    /\ resp.op = "query" =>
          /\ \A i \in 1..Len(resp.docs) :
                IsLive(resp.docs[i].page_content, resp.docs[i].metadata)
          /\ Len(resp.result.sources) <= Len(inserted)
    /\ resp.op \in {"stats", "health", "query"} => resp.count \in {0, Len(inserted)}

\* a query cites entries of a collection created by a clear
C5_Witness ==
    /\ QueryOk
    /\ Len(resp.docs) > 0
    /\ collId # 1

\* C6: a question asked while the index count is 0 gets the 400 "No documents
\* available" and neither retrieval nor generation is invoked.
C6_EmptyIndexQueryRejected ==
    (resp.op = "query" /\ Count = 0) =>
        /\ resp.status = 400
        /\ resp.detail = "No documents available"
        /\ resp.retrievals = 0
        /\ resp.generations = 0

\* a question on an existing, empty collection after files were uploaded
C6_Witness ==
    /\ resp.op = "query"
    /\ collId # 0
    /\ collData = <<>>
    /\ uploadDir # {}
    /\ ~resp.fault.lookupFails
    /\ resp.status = 400

\* C7: the count lookup never raises: /stats and /health answer 200 with the
\* number of entries, or 0 when the collection is missing or the lookup fails,
\* and a query then gets the 400 of an empty index; a failure in upload,
\* query, clear or search is raised.
C7_CountNeverRaises ==
    LET lookupFailed == resp.fault.lookupFails \/ collId = 0
    IN /\ resp.op \in {"stats", "health"} =>
             /\ resp.status = 200
             /\ ~resp.raised
             /\ resp.count = (IF lookupFailed THEN 0 ELSE Len(collData))
       /\ (resp.op = "query" /\ lookupFailed) => (resp.status = 400 /\ ~resp.raised)
       /\ (resp.op = "query" /\ ~lookupFailed /\ Len(collData) > 0
             /\ (resp.fault.embedFails \/ resp.fault.generateFails \/ ragHandle # collId))
             => (resp.status = 500 /\ resp.raised)
       /\ (resp.op = "upload" /\ resp.status # 400
             /\ (UploadFailed(resp) \/ vsHandle # collId \/ collId = 0))
             => (resp.status = 500 /\ resp.raised)
       /\ (resp.op = "clear"
             /\ (resp.fault.deleteFails \/ resp.fault.createFails \/ resp.preId = 0))
             => (resp.status = 500 /\ resp.raised)
       /\ (resp.op = "search"
             /\ (resp.fault.embedFails \/ collId = 0
                   \/ (IF resp.store = "main" THEN vsHandle ELSE ragHandle) # collId))
             => resp.raised

\* /health answers 0 while the collection does not exist
C7_Witness ==
    /\ resp.op = "health"
    /\ collId = 0
    /\ resp.status = 200
    /\ resp.count = 0

\* C8: each source text is the first 200 characters of the chunk text followed
\* by "...": length L + 3 for a chunk of L <= 200 characters, 203 otherwise.
C8_SourceTextTruncated ==
    QueryOk =>
        \A i \in 1..Len(resp.docs) :
            LET t == resp.docs[i].page_content
                d == resp.result.sources[i].text
            IN /\ d = SubSeq(t, 1, Min(DisplayChars, Len(t))) \o "..."
               /\ Len(d) = (IF Len(t) <= DisplayChars THEN Len(t) + 3
                            ELSE DisplayChars + 3)

\* one answer citing chunks of 50, of 200 and of 201 characters
C8_Witness ==
    /\ QueryOk
    /\ \E i, j, k \in 1..Len(resp.docs) :
          /\ Len(resp.docs[i].page_content) = 50
          /\ Len(resp.result.sources[i].text) = 53
          /\ Len(resp.docs[j].page_content) = 200
          /\ Len(resp.result.sources[j].text) = 203
          /\ Len(resp.docs[k].page_content) = 201
          /\ Len(resp.result.sources[k].text) = 203

\* distance of a text to the question of the last call
QDistance(text) == Abs(Embed(resp.question) - Embed(text))

\* C9: the sources are the retrieved chunks, one each, in rank order (nearest
\* first), with the chunk's source and page; there are at most TOP_K_RESULTS
\* of them and at most as many as the index holds.
C9_SourcesFollowRetrieval ==
    QueryOk =>
        LET docs == resp.docs
            sources == resp.result.sources
        IN /\ Len(sources) = Len(docs)
           /\ Len(sources) <= TOP_K_RESULTS
           /\ Len(sources) <= Len(collData)
           /\ \A i \in 1..Len(sources) :
                 /\ sources[i].source = docs[i].metadata.source
                 /\ sources[i].page = docs[i].metadata.page
           /\ \A i, j \in 1..Len(docs) :
                 i < j => QDistance(docs[i].page_content) <= QDistance(docs[j].page_content)

\* more entries than TOP_K_RESULTS: five sources, from different pages
C9_Witness ==
    /\ QueryOk
    /\ Len(collData) > TOP_K_RESULTS
    /\ Len(resp.result.sources) = TOP_K_RESULTS
    /\ \E i, j \in 1..Len(resp.result.sources) :
          resp.result.sources[i].page # resp.result.sources[j].page

\* C10: the result of a successful query carries the question as it was given
\* and the generated text as the answer.
C10_QuestionAndAnswerEchoed ==
    QueryOk =>
        /\ resp.result.question = resp.question
        /\ resp.result.answer = resp.generatedText

\* the empty question, answered
C10_Witness ==
    /\ QueryOk
    /\ resp.question = ""
    /\ resp.result.answer = "x"

\* the name ends in ".pdf", whatever the case of its letters
IsPdfName(name) ==
    /\ Len(name) >= 4
    /\ Lower(SubSeq(name, Len(name) - 3, Len(name))) = ".pdf"

\* C11: an upload is rejected with 400 exactly when its name does not end in
\* ".pdf" (in any case) or its size exceeds MAX_UPLOAD_SIZE; a rejected upload
\* has called neither process_pdf nor add_documents and leaves the upload
\* directory and the index as they were; MAX_UPLOAD_SIZE bytes are accepted.
C11_InvalidUploadRejectedFirst ==
    resp.op = "upload" =>
        /\ resp.status = 400 <=> (~IsPdfName(resp.filename) \/ resp.size > MAX_UPLOAD_SIZE)
        /\ resp.status = 400 =>
              /\ resp.processed = 0
              /\ resp.adds = 0
              /\ uploadDir = resp.preDir
              /\ collId = resp.preId
              /\ collData = resp.preData
        /\ (IsPdfName(resp.filename) /\ resp.size = MAX_UPLOAD_SIZE) => resp.processed = 1

\* an oversized PDF whose name is not yet in the upload directory is rejected
\* while the index holds the chunks of a file of exactly MAX_UPLOAD_SIZE bytes
C11_Witness ==
    /\ resp.op = "upload"
    /\ resp.status = 400
    /\ resp.size = MAX_UPLOAD_SIZE + 1
    /\ resp.filename \notin uploadDir
    /\ uploadDir # {}
    /\ Len(collData) > 0

\* C12: a query with the empty question is rejected with a validation error
\* before the count is looked up, anything is retrieved or generated.
C12_EmptyQuestionRejected ==
    (resp.op = "query" /\ resp.question = "") =>
        /\ resp.status \in {400, 422}
        /\ resp.detail # "No documents available"
        /\ resp.lookups = 0
        /\ resp.retrievals = 0
        /\ resp.generations = 0

\* process_pdf has returned its list
Processed == resp.op = "process_pdf" /\ resp.processed = 1 /\ ~resp.raised

ChunkText(i) == resp.chunks[i].text

\* the last n characters of s
Suffix(s, n) == SubSeq(s, Len(s) - n + 1, Len(s))

NoWhiteSpace(text) == \A i \in 1..Len(text) : CharAt(text, i) \notin WhiteSpace

NoSeparator(text) == \A i \in 1..Len(text) : CharAt(text, i) \notin {" ", "\n"}

\* C13: the list process_pdf returns for a document split into N chunks has
\* the chunk_id values 0..N-1 in list order, and every chunk's source is the
\* filename process_pdf was given.
C13_ChunkIdsCountFromZero ==
    Processed =>
        /\ Len(resp.chunks) = resp.nPieces
        /\ \A i \in 1..Len(resp.chunks) :
              /\ resp.chunks[i].metadata.chunk_id = i - 1
              /\ resp.chunks[i].metadata.source = resp.filename

\* four chunks or more from the two pages of "b.PDF"
C13_Witness ==
    /\ Processed
    /\ resp.filename = NameB
    /\ Len(resp.pages) = 2
    /\ Len(resp.chunks) >= 4
    /\ resp.chunks[1].metadata.page # resp.chunks[Len(resp.chunks)].metadata.page

\* C14: every chunk is non-empty and at most chunk_size characters long.
C14_ChunksWithinSize ==
    Processed =>
        \A i \in 1..Len(resp.chunks) :
            /\ ChunkText(i) # ""
            /\ Len(ChunkText(i)) <= resp.chunk_size

\* under the configured settings, a chunk of exactly CHUNK_SIZE characters and
\* a shorter one
C14_Witness ==
    /\ Processed
    /\ resp.chunk_size = CHUNK_SIZE
    /\ \E i, j \in 1..Len(resp.chunks) :
          /\ Len(ChunkText(i)) = CHUNK_SIZE
          /\ Len(ChunkText(j)) < CHUNK_SIZE

\* C15 as stated: whenever two chunks with adjacent numbers are both longer
\* than chunk_overlap, the last chunk_overlap characters of the first are the
\* first chunk_overlap characters of the second.
C15_AdjacentChunksOverlap ==
    Processed =>
        \A i \in 1..(Len(resp.chunks) - 1) :
            (Len(ChunkText(i)) > resp.chunk_overlap
                /\ Len(ChunkText(i + 1)) > resp.chunk_overlap)
            => Suffix(ChunkText(i), resp.chunk_overlap)
                  = SubSeq(ChunkText(i + 1), 1, resp.chunk_overlap)

\* C15 amended: the same for two chunks with adjacent numbers cut from the same
\* page, when the text of that page contains no white space.
C15_OverlapWithinPlainPage ==
    Processed =>
        \A i \in 1..(Len(resp.chunks) - 1) :
            (/\ resp.chunks[i].metadata.page = resp.chunks[i + 1].metadata.page
             /\ NoWhiteSpace(resp.pages[resp.chunks[i].metadata.page + 1])
             /\ Len(ChunkText(i)) > resp.chunk_overlap
             /\ Len(ChunkText(i + 1)) > resp.chunk_overlap)
            => Suffix(ChunkText(i), resp.chunk_overlap)
                  = SubSeq(ChunkText(i + 1), 1, resp.chunk_overlap)

\* under the configured settings, three chunks of one page without white space
C15_Witness ==
    /\ Processed
    /\ resp.chunk_size = CHUNK_SIZE
    /\ resp.chunk_overlap = CHUNK_OVERLAP
    /\ Len(resp.pages) = 1
    /\ NoWhiteSpace(resp.pages[1])
    /\ Len(resp.chunks) = 3
    /\ Suffix(ChunkText(2), CHUNK_OVERLAP) = SubSeq(ChunkText(3), 1, CHUNK_OVERLAP)

\* the chunks of the one page are the substrings at the offsets i * (S - O),
\* of length min(S, L - i * (S - O)), and the last one ends the text
AtStrideOffsets ==
    LET text == resp.pages[1]
        L == Len(text)
        S == resp.chunk_size
        O == resp.chunk_overlap
        N == Len(resp.chunks)
    IN /\ N >= 1
       /\ \A i \in 0..(N - 1) :
             ChunkText(i + 1)
                 = SubSeq(text, i * (S - O) + 1, i * (S - O) + Min(S, L - i * (S - O)))
       /\ (N - 1) * (S - O) + Len(ChunkText(N)) = L

\* C16 as stated: a single page longer than chunk_size that contains none of
\* the separator characters is cut at the offsets i * (S - O).
C16_ChunkOffsetsNoSeparator ==
    (Processed /\ Len(resp.pages) = 1 /\ Len(resp.pages[1]) > resp.chunk_size
        /\ NoSeparator(resp.pages[1]))
    => AtStrideOffsets

\* C16 amended: a single page longer than chunk_size that contains no white
\* space is cut at the offsets i * (S - O).
C16_ChunkOffsetsNoWhiteSpace ==
    (Processed /\ Len(resp.pages) = 1 /\ Len(resp.pages[1]) > resp.chunk_size
        /\ NoWhiteSpace(resp.pages[1]))
    => AtStrideOffsets

\* 1500 identical characters with chunk size 1000 and overlap 200: two chunks
\* of 1000 and 700 characters
C16_Witness ==
    /\ Processed
    /\ resp.chunk_size = 1000
    /\ resp.chunk_overlap = 200
    /\ resp.pages = <<Rep("a", 1500)>>
    /\ Len(resp.chunks) = 2
    /\ Len(ChunkText(1)) = 1000
    /\ Len(ChunkText(2)) = 700
    /\ SubSeq(ChunkText(2), 1, 200) = Suffix(ChunkText(1), 200)

\* C17 as stated: a document whose pages yield no chunk is processed into an
\* empty list, and its upload, met by no failure of extraction, embedding or
\* storage, answers 200 with chunks_created = 0 and leaves the count as it was.
C17_ZeroChunkUploadSucceeds ==
    ( /\ resp.op = "upload"
      /\ resp.processed = 1
      /\ resp.nPieces = 0
      /\ ~UploadFailed(resp)
      /\ resp.preId # 0
      /\ vsHandle = resp.preId )
        => /\ resp.status = 200
           /\ resp.chunks_created = 0
           /\ Count = Len(resp.preData)

\* the instance the last search was called on holds the live collection
SearchedLive ==
    /\ collId # 0
    /\ (IF resp.store = "main" THEN vsHandle ELSE ragHandle) = collId

\* C18: a search met by no failure returns min(k, count) results, k being
\* TOP_K_RESULTS when it is omitted: at most k, every entry when k is not less
\* than the count, none on an empty index; the results come nearest first,
\* each with its distance as score.
C18_SearchReturnsNearestK ==
    resp.op = "search" =>
        LET k == IF resp.kOpt = <<>> THEN TOP_K_RESULTS ELSE resp.kOpt[1]
            n == Len(collData)
        IN /\ (SearchedLive /\ ~resp.fault.embedFails) =>
                 /\ ~resp.raised
                 /\ Len(resp.results) = Min(k, n)
                 /\ k >= n =>
                       \A e \in 1..n : \E i \in 1..Len(resp.results) :
                           /\ resp.results[i].text = collData[e].document
                           /\ resp.results[i].metadata = collData[e].metadata
           /\ Len(resp.results) <= k
           /\ Len(resp.results) <= n
           /\ \A i \in 1..Len(resp.results) :
                 resp.results[i].score = QDistance(resp.results[i].text)
           /\ \A i, j \in 1..Len(resp.results) :
                 i < j => resp.results[i].score <= resp.results[j].score

\* a search without k on more than TOP_K_RESULTS entries returns TOP_K_RESULTS
\* results at different distances
C18_Witness ==
    /\ resp.op = "search"
    /\ resp.kOpt = <<>>
    /\ Len(collData) > TOP_K_RESULTS
    /\ Len(resp.results) = TOP_K_RESULTS
    /\ resp.results[1].score < resp.results[TOP_K_RESULTS].score

\* the batches a successful upload of one of the documents commits
Batches ==
    {Committed(FormatChunks(u.pieces, sanitize_filename(u.filename))) :
        u \in {v \in ConcUploads : ~v.corrupt /\ Len(v.pieces) > 0}}

\* data is made of whole batches, one after the other
RECURSIVE WholeBatches(_)
WholeBatches(data) ==
    \/ data = <<>>
    \/ \E b \in Batches :
          /\ Len(b) <= Len(data)
          /\ SubSeq(data, 1, Len(b)) = b
          /\ WholeBatches(SubSeq(data, Len(b) + 1, Len(data)))

\* the entry has its text, its metadata and the vector of its text
CompleteEntry(e) ==
    /\ DOMAIN e = {"document", "metadata", "embedding"}
    /\ DOMAIN e.metadata = {"source", "page", "chunk_id"}
    /\ e.embedding = Embed(e.document)

\* C19: however uploads, queries and searches interleave, the collection a
\* search reads is made of whole batches of complete entries, each batch all
\* there or not at all; an upload leaves the collection with its whole batch
\* added or as it was, and what a search or query returns are entries of it.
C19_SearchSeesWholeBatches ==
    /\ WholeBatches(collData)
    /\ collData = inserted
    /\ \A i \in 1..Len(collData) : CompleteEntry(collData[i])
    /\ resp.op = "upload" =>
          \/ collData = resp.preData
          \/ \E b \in Batches : resp.status = 200 /\ collData = resp.preData \o b
    /\ resp.op = "search" =>
          \A i \in 1..Len(resp.results) : \E e \in 1..Len(collData) :
              /\ resp.results[i].text = collData[e].document
              /\ resp.results[i].metadata = collData[e].metadata
              /\ resp.results[i].score = QDistance(collData[e].document)
    /\ resp.op = "query" =>
          \A i \in 1..Len(resp.docs) : \E e \in 1..Len(collData) :
              /\ resp.docs[i].page_content = collData[e].document
              /\ resp.docs[i].metadata = collData[e].metadata

\* a search returns the entries of one committed batch while two uploads are
\* suspended, the first of them received before that batch was committed
C19_Witness ==
    /\ resp.op = "search"
    /\ Len(inflight) = MaxInflight
    /\ inflight[1].file.filename = NameB
    /\ Len(collData) = Len(TwoPages)
    /\ Len(resp.results) = Len(TwoPages)

\* the question put in the chat did not get an answer
FailedAsk == resp.op = "ask" /\ resp.requests > 0 /\ resp.status # 200

\* the question failed in the RAG chain: retrieval or generation raised
ChainFailedAsk == FailedAsk /\ resp.status = 500 /\ resp.count > 0

\* C20 as stated: a question that fails in retrieval or generation leaves the
\* index and the chat history as they were, no message added.
C20_FailedQueryLeavesIndexAndChat ==
    ChainFailedAsk =>
        /\ collId = resp.preId
        /\ collData = resp.preData
        /\ session_state.messages = resp.preMessages

\* C20 amended: a question that fails leaves the index as it was, and adds to
\* the chat history the question and the assistant's error message.
C20_FailedQueryLeavesIndexAddsError ==
    FailedAsk =>
        /\ collId = resp.preId
        /\ collData = resp.preData
        /\ session_state.messages
              = resp.preMessages
                  \o <<Message("user", resp.question, <<>>),
                       Message("assistant", ErrorMsg, <<>>)>>

\* a question fails after every retry, on an index that holds chunks and a chat
\* that holds an answered question
C20_Witness ==
    /\ ChainFailedAsk
    /\ resp.requests = RetryTotal + 1
    /\ Len(collData) > 0
    /\ Len(resp.preMessages) = 2
    /\ resp.preMessages[2].content = "x"

\* C21: whatever the file name given, the name sanitize_filename returns
\* contains no "/" and no "..".
C21_SanitizedNameStaysInside ==
    (resp.op = "sanitize" /\ resp.processed = 1) =>
        /\ ~Found(resp.safe_filename, "/")
        /\ ~Found(resp.safe_filename, "..")

\* C22: a call of RAGChain.query retrieves once and generates at most once;
\* when retrieval or generation fails the call raises, "Error processing
\* query", and gives back no answer and no sources.
C22_QueryGeneratesOnceNoPartial ==
    (resp.op = "query" /\ resp.count > 0) =>
        /\ resp.retrievals = 1
        /\ resp.generations <= 1
        /\ (resp.fault.embedFails \/ resp.fault.generateFails) =>
              /\ resp.raised
              /\ resp.status = 500
              /\ resp.detail = "Error processing query"
              /\ resp.generations = (IF resp.fault.generateFails /\ ragHandle = collId
                                     THEN 1 ELSE 0)
        /\ resp.raised => resp.result = NoResult /\ resp.docs = <<>>

\* the generation failed, once, on documents that were retrieved
C22_Witness ==
    /\ resp.op = "query"
    /\ resp.fault.generateFails
    /\ resp.count > 0
    /\ resp.retrievals = 1
    /\ resp.generations = 1
    /\ resp.raised
    /\ resp.result = NoResult

\* C23: every chunk's page is the zero-based number of a page of the document
\* and the chunk's text is part of the text of that page alone; along the
\* chunk list the page numbers never decrease.
C23_ChunkPageIsItsPage ==
    Processed =>
        \A i \in 1..Len(resp.chunks) :
            LET pg == resp.chunks[i].metadata.page
            IN /\ pg \in 0..(Len(resp.pages) - 1)
               /\ Found(resp.pages[pg + 1], ChunkText(i))
               /\ i > 1 => resp.chunks[i - 1].metadata.page <= pg

\* two pages cut into two chunks or more each
C23_Witness ==
    /\ Processed
    /\ Len(resp.pages) = 2
    /\ Len(resp.chunks) >= 4
    /\ resp.chunks[2].metadata.page = 0
    /\ resp.chunks[Len(resp.chunks) - 1].metadata.page = 1
    /\ resp.pages[1] # resp.pages[2]

\* C24: the VectorStore of main and the VectorStore of the RAG chain hold the
\* same live collection at all times, and a query that finds the index
\* non-empty and meets no failure succeeds on entries of the collection.
C24_BothStoresOnLiveCollection ==
    /\ collId # 0 => (vsHandle = collId /\ ragHandle = collId)
    /\ (resp.op = "query" /\ resp.fault = NoFault /\ resp.count > 0) =>
          /\ resp.status = 200
          /\ \A i \in 1..Len(resp.docs) : \E e \in 1..Len(collData) :
                /\ resp.docs[i].page_content = collData[e].document
                /\ resp.docs[i].metadata = collData[e].metadata

\* C25: a query that passed the count check retrieves from the collection the
\* count was taken from, which is live and not empty.
C25_CheckedQueryReadsLiveEntries ==
    (resp.op = "query" /\ resp.count > 0 /\ resp.retrievals = 1) =>
        /\ collId # 0
        /\ ragHandle = collId
        /\ Len(collData) = resp.count

\* C26: an upload that fails in process_pdf or in add_documents leaves the
\* list of uploaded files as it was.
C26_FailedUploadNotListed ==
    (resp.op = "upload" /\ resp.status = 500) =>
        get_uploaded_files(uploadDir) = get_uploaded_files(resp.preDir)

\* C27: when a successful clear was the last operation that changed the
\* index, /stats and /health report no uploaded file.
C27_ClearEmptiesUploadedFiles ==
    (resp.op \in {"stats", "health"} /\ resp.status = 200 /\ cleared.run > 0) =>
        resp.files = {}

\* C28: an upload request that created a temporary file has removed it when
\* it completes, whatever its outcome: the temporary directory holds no file
\* of a completed request.
C28_TempFileRemoved ==
    /\ tempFiles = 0
    /\ (resp.op = "upload" /\ resp.tmpCreated = 1) => tempFiles = resp.preTemp

RenderedClear == resp.op = "render_clear"

\* C29: confirm_clear starts False; a run of the page sends DELETE /documents
\* only when confirm_clear was True before it and "Yes, Delete All" is
\* pressed; "Clear All" sets confirm_clear and sends nothing; Cancel and a
\* successful clear reset it, the successful clear emptying the chat as well;
\* after a failed clear it is still True and the chat is as it was.
C29_ClearNeedsConfirmation ==
    /\ resp.op = "none" => ~session_state.confirm_clear
    /\ RenderedClear =>
          /\ resp.requests > 0 <=> (resp.preConfirm /\ resp.button = "yes")
          /\ resp.requests = 0 =>
                (collId = resp.preId /\ collData = resp.preData
                    /\ session_state.messages = resp.preMessages)
          /\ resp.button = "clear_all" => session_state.confirm_clear
          /\ resp.button = "cancel" => ~session_state.confirm_clear
          /\ (resp.button = "yes" /\ ~resp.preConfirm) => ~session_state.confirm_clear
          /\ (resp.requests > 0 /\ resp.status = 200) =>
                /\ ~session_state.confirm_clear
                /\ session_state.messages = <<>>
                /\ collData = <<>>
          /\ (resp.requests > 0 /\ resp.status # 200) =>
                /\ session_state.confirm_clear
                /\ session_state.messages = resp.preMessages

\* a confirmed clear fails after every retry and leaves the dialog open, with
\* a chat that holds messages
C29_Witness ==
    /\ RenderedClear
    /\ resp.button = "yes"
    /\ resp.preConfirm
    /\ resp.status = 500
    /\ resp.requests = RetryTotal + 1
    /\ session_state.confirm_clear
    /\ Len(session_state.messages) > 0

ApiCalled == resp.op \in {"api_upload", "api_query"} /\ resp.processed = 1

\* C30: one call of APIClient.upload_document or query_documents sends at most
\* 4 requests, one and then at most RetryTotal more; it sends a request again
\* only after a response with a status of status_forcelist or after no
\* response, never after a 200 or a 400, and stops at the first response of
\* another status; it returns the JSON body, after a 200, or None.
C30_AtMostFourRequests ==
    ApiCalled =>
        /\ resp.requests \in 1..4
        /\ resp.requests <= RetryTotal + 1
        /\ resp.retriedAfter \subseteq ({429, 500, 502, 503, 504} \cup {NoResponse})
        /\ \A i \in 1..(resp.requests - 1) : resp.outcomes[i] \notin {200, 400}
        /\ resp.requests <= RetryTotal =>
              resp.outcomes[resp.requests] \in {200, 400}
        /\ resp.returned \in {"json", "None"}
        /\ resp.returned = "json" <=> resp.outcomes[resp.requests] = 200

\* the fourth request, sent after a 500, no response and a 429, gets the 200
C30_Witness ==
    /\ ApiCalled
    /\ resp.requests = 4
    /\ resp.retriedAfter = {500, NoResponse, 429}
    /\ resp.returned = "json"

====
